---- MODULE Spec2Model ----
(***************************************************************************)
(* A model of the three pipeline scripts of kiezcolors_brandenburg:        *)
(*   scripts/make-tiles-bb.py  grid download, dedup, transform, tiles      *)
(*   scripts/convert-bb.py     convert an existing GeoJSON, tiles          *)
(*   scripts/download-bb.py    chunked GML download, merge with ogr2ogr    *)
(***************************************************************************)
EXTENDS Integers, Sequences, FiniteSets, TLC

(***************************************************************************)
(* Python floats.  The grid loop of make-tiles-bb.py computes on binary64  *)
(* values.  A coordinate is modelled exactly, as a non-negative fixed-point*)
(* number n * 2^-FracBits whose n is held in three limbs <<l0, l1, l2>> of *)
(* LimbBits bits, least significant first: every binary64 value from 2^-4  *)
(* up is such a number.  A float operation is the exact operation followed *)
(* by rounding to MantBits significant bits, ties to even.                 *)
(***************************************************************************)
MantBits == 53

FracBits == 56

LimbBits == 24

LimbBase == 2^LimbBits

\* 0.0
FZero == <<0, 0, 0>>

\* Bit i (0 = least significant) of the binary64 value 0x1.<frac>p<e> of
\* float.hex(): frac is the 13 hex digits of the fraction, most significant
\* first.
HexBit(frac, e, i) ==
    LET n == FracBits + e - i
    IN  IF n = 0 THEN 1
        ELSE IF n >= 1 /\ n <= 52
             THEN (frac[((n - 1) \div 4) + 1] \div 2^(3 - ((n - 1) % 4))) % 2
             ELSE 0

\* Limb k of that value, from its bit j on.
RECURSIVE HexLimb(_, _, _, _)
HexLimb(frac, e, k, j) ==
    IF j = LimbBits THEN 0
    ELSE HexBit(frac, e, k * LimbBits + j) * 2^j + HexLimb(frac, e, k, j + 1)

FromHex(frac, e) ==
    <<HexLimb(frac, e, 0, 0), HexLimb(frac, e, 1, 0), HexLimb(frac, e, 2, 0)>>

\* Exact sum of two fixed-point values.
ExactAdd(a, b) ==
    LET s0 == a[1] + b[1]
        s1 == a[2] + b[2] + (s0 \div LimbBase)
        s2 == a[3] + b[3] + (s1 \div LimbBase)
    IN  <<s0 % LimbBase, s1 % LimbBase, s2>>

\* Number of bits of a limb.
Len2(n) ==
    IF n = 0 THEN 0
    ELSE CHOOSE k \in 1..(LimbBits + 1) : 2^(k - 1) <= n /\ n < 2^k

\* Position of the leading one bit, 0 for zero.
BitLen(a) ==
    IF a[3] > 0 THEN 2 * LimbBits + Len2(a[3])
    ELSE IF a[2] > 0 THEN LimbBits + Len2(a[2])
    ELSE Len2(a[1])

\* Round to MantBits significant bits, round-half-to-even.  The values of
\* the scenarios drop fewer than LimbBits bits, all of limb 0.
RoundNearestEven(a) ==
    LET d == BitLen(a) - MantBits
    IN  IF d <= 0 THEN a
        ELSE LET q    == 2^d
                 low  == a[1] % q
                 kept == <<a[1] - low, a[2], a[3]>>
                 odd  == (a[1] \div q) % 2 = 1
                 up   == 2 * low > q \/ (2 * low = q /\ odd)
             IN  IF up THEN ExactAdd(kept, <<q, 0, 0>>) ELSE kept

\* a < b
FLess(a, b) ==
    \/ a[3] < b[3]
    \/ a[3] = b[3] /\ a[2] < b[2]
    \/ a[3] = b[3] /\ a[2] = b[2] /\ a[1] < b[1]

\* Python's a + b on floats.
FAdd(a, b) == RoundNearestEven(ExactAdd(a, b))

\* Python's min(a, b).
FMin(a, b) == IF FLess(b, a) THEN b ELSE a


(***************************************************************************)
(* Literals of the scripts and of the grid scenarios, as float.hex() gives *)
(* them.                                                                   *)
(***************************************************************************)
F0_1   == FromHex(<<9, 9, 9, 9, 9, 9, 9, 9, 9, 9, 9, 9, 10>>, -4)
F0_2   == FromHex(<<9, 9, 9, 9, 9, 9, 9, 9, 9, 9, 9, 9, 10>>, -3)
F0_3   == FromHex(<<3, 3, 3, 3, 3, 3, 3, 3, 3, 3, 3, 3, 3>>, -2)
F0_5   == FromHex(<<0, 0, 0, 0, 0, 0, 0, 0, 0, 0, 0, 0, 0>>, -1)
F1_0   == FromHex(<<0, 0, 0, 0, 0, 0, 0, 0, 0, 0, 0, 0, 0>>, 0)
F1_2   == FromHex(<<3, 3, 3, 3, 3, 3, 3, 3, 3, 3, 3, 3, 3>>, 0)
F11_2  == FromHex(<<6, 6, 6, 6, 6, 6, 6, 6, 6, 6, 6, 6, 6>>, 3)
F14_77 == FromHex(<<13, 8, 10, 3, 13, 7, 0, 10, 3, 13, 7, 0, 10>>, 3)
F51_35 == FromHex(<<9, 10, 12, 12, 12, 12, 12, 12, 12, 12, 12, 12, 13>>, 5)
F53_56 == FromHex(<<10, 12, 7, 10, 14, 1, 4, 7, 10, 14, 1, 4, 8>>, 5)

\* BB_BBOX and GRID_SIZE as the script sets them.
BB_BBOX == [minx |-> F11_2, miny |-> F51_35, maxx |-> F14_77, maxy |-> F53_56]

GRID_SIZE == F0_5

(***************************************************************************)
(* JSON values.  A raw feature is the record of the fields the scripts     *)
(* read: f["id"], f["properties"]["gml_id"], f["properties"]["nutzart"]    *)
(* and f["geometry"].  Absent stands for a key that is not there (what     *)
(* dict.get answers with its default), None for Python's None.             *)
(***************************************************************************)
Absent == "<absent>"

None == "<None>"

\* Python truthiness of a string-or-None value.
Truthy(v) == v \notin {None, ""}

\* d.get(key) with no default: None when the key is absent.
Get(v) == IF v = Absent THEN None ELSE v

\* d.get(key, default)
GetOr(v, default) == IF v = Absent THEN default ELSE v

\* Python's a or b
PyOr(a, b) == IF Truthy(a) THEN a ELSE b

RawFeature(id, gml_id, nutzart, geometry) ==
    [id |-> id, gml_id |-> gml_id, nutzart |-> nutzart, geometry |-> geometry]

mapping ==
    ("Wohnbaufläche" :> "AX_Wohnbauflaeche")
    @@ ("Industrie- und Gewerbefläche" :> "AX_IndustrieUndGewerbeflaeche")
    @@ ("Fläche gemischter Nutzung" :> "AX_FlaecheGemischterNutzung")
    @@ ("Fläche besonderer funktionaler Prägung" :> "AX_FlaecheBesondererFunktionalerPraegung")
    @@ ("Sport-, Freizeit- und Erholungsfläche" :> "AX_SportFreizeitUndErholungsflaeche")
    @@ ("Straßenverkehr" :> "AX_Strassenverkehr")
    @@ ("Weg" :> "AX_Weg")
    @@ ("Platz" :> "AX_Platz")
    @@ ("Bahnverkehr" :> "AX_Bahnverkehr")
    @@ ("Flugverkehr" :> "AX_Flugverkehr")
    @@ ("Schiffsverkehr" :> "AX_Schiffsverkehr")
    @@ ("Wald" :> "AX_Wald")
    @@ ("Gehölz" :> "AX_Gehoelz")
    @@ ("Heide" :> "AX_Heide")
    @@ ("Moor" :> "AX_Moor")
    @@ ("Sumpf" :> "AX_Sumpf")
    @@ ("Landwirtschaft" :> "AX_Landwirtschaft")
    @@ ("Unland/Vegetationslose Fläche" :> "AX_UnlandVegetationsloseFlaeche")
    @@ ("Friedhof" :> "AX_Friedhof")
    @@ ("Fließgewässer" :> "AX_Fliessgewaesser")
    @@ ("Stehendes Gewässer" :> "AX_StehendesGewaesser")
    @@ ("Hafenbecken" :> "AX_Hafenbecken")
    @@ ("Tagebau, Grube, Steinbruch" :> "AX_TagebauGrubeSteinbruch")
    @@ ("Halde" :> "AX_Halde")

\* Mutant: one value of the second table keeps its sharp s.
NUTZART_TO_BEZEICH_typo ==
    [k \in DOMAIN mapping |->
        IF k = "Straßenverkehr" THEN "AX_Straßenverkehr" ELSE mapping[k]]

NUTZART_TO_BEZEICH ==
    ("Wohnbaufläche" :> "AX_Wohnbauflaeche")
    @@ ("Industrie- und Gewerbefläche" :> "AX_IndustrieUndGewerbeflaeche")
    @@ ("Fläche gemischter Nutzung" :> "AX_FlaecheGemischterNutzung")
    @@ ("Fläche besonderer funktionaler Prägung" :> "AX_FlaecheBesondererFunktionalerPraegung")
    @@ ("Sport-, Freizeit- und Erholungsfläche" :> "AX_SportFreizeitUndErholungsflaeche")
    @@ ("Straßenverkehr" :> "AX_Strassenverkehr")
    @@ ("Weg" :> "AX_Weg")
    @@ ("Platz" :> "AX_Platz")
    @@ ("Bahnverkehr" :> "AX_Bahnverkehr")
    @@ ("Flugverkehr" :> "AX_Flugverkehr")
    @@ ("Schiffsverkehr" :> "AX_Schiffsverkehr")
    @@ ("Wald" :> "AX_Wald")
    @@ ("Gehölz" :> "AX_Gehoelz")
    @@ ("Heide" :> "AX_Heide")
    @@ ("Moor" :> "AX_Moor")
    @@ ("Sumpf" :> "AX_Sumpf")
    @@ ("Landwirtschaft" :> "AX_Landwirtschaft")
    @@ ("Unland/Vegetationslose Fläche" :> "AX_UnlandVegetationsloseFlaeche")
    @@ ("Friedhof" :> "AX_Friedhof")
    @@ ("Fließgewässer" :> "AX_Fliessgewaesser")
    @@ ("Stehendes Gewässer" :> "AX_StehendesGewaesser")
    @@ ("Hafenbecken" :> "AX_Hafenbecken")
    @@ ("Tagebau, Grube, Steinbruch" :> "AX_TagebauGrubeSteinbruch")
    @@ ("Halde" :> "AX_Halde")

\* dict.get(key) on a table: the value, or None.
DictGet(table, key) == IF key \in DOMAIN table THEN table[key] ELSE None

\* Mutant: the lookup ignores the case of the first letter of "Wald".
map_nutzart_to_bezeich_ignorecase(nutzart) ==
    IF nutzart = "wald" THEN mapping["Wald"] ELSE DictGet(mapping, nutzart)

map_nutzart_to_bezeich(nutzart) == DictGet(mapping, nutzart)

\* One iteration of the loop of transform_features: the features appended.
TransformOne(f) ==
    LET nutzart == GetOr(f.nutzart, "")
        bezeich == map_nutzart_to_bezeich(nutzart)
    IN  IF Truthy(bezeich)
        THEN <<[type |-> "Feature",
                properties |-> [bezeich |-> bezeich],
                geometry |-> Get(f.geometry)]>>
        ELSE <<>>

RECURSIVE transform_features(_)
transform_features(features) ==
    IF features = <<>> THEN <<>>
    ELSE TransformOne(Head(features)) \o transform_features(Tail(features))

\* One iteration of the loop of convert_features (convert-bb.py).
ConvertOne(feature) ==
    LET nutzart == GetOr(feature.nutzart, "")
        bezeich == DictGet(NUTZART_TO_BEZEICH, nutzart)
    IN  IF Truthy(bezeich)
        THEN <<[type |-> "Feature",
                properties |-> [bezeich |-> bezeich],
                geometry |-> Get(feature.geometry)]>>
        ELSE <<>>

RECURSIVE convert_features(_)
convert_features(features) ==
    IF features = <<>> THEN <<>>
    ELSE ConvertOne(Head(features)) \o convert_features(Tail(features))

(***************************************************************************)
(* The Feature Fetcher and the Deduplicating Collector (make-tiles-bb.py). *)
(* A response is what requests.get and response.json() come to:           *)
(*   "ok"               a JSON object; features is data.get("features",[]) *)
(*   "RequestException" connection error, timeout, HTTP error status       *)
(*   "JSONDecodeError"  the body is not JSON                               *)
(*   "NotAnObject"      the body is JSON but not an object ([], null, a    *)
(*                      string), so data.get raises AttributeError         *)
(***************************************************************************)
Response(outcome, features) == [outcome |-> outcome, features |-> features]

\* get_features_for_bbox: the list returned, or the exception that escapes.
get_features_for_bbox(resp) ==
    CASE resp.outcome = "ok" ->
            [raised |-> "none", value |-> resp.features]
      [] resp.outcome \in {"RequestException", "JSONDecodeError"} ->
            [raised |-> "none", value |-> <<>>]
      [] OTHER ->
            [raised |-> "AttributeError", value |-> <<>>]

\* Mutant: the two identifier fields are read in the other order.
Fid_gml_first(f) == PyOr(Get(f.gml_id), Get(f.id))

\* fid = f.get("id") or f.get("properties", {}).get("gml_id")
Fid(f) == PyOr(Get(f.id), Get(f.gml_id))

\* Mutant: the loop never adds to seen_ids.
RECURSIVE Collect_no_seen(_, _, _)
Collect_no_seen(features, all, seen) ==
    IF features = <<>> THEN [all_features |-> all, seen_ids |-> seen]
    ELSE LET f   == Head(features)
             fid == PyOr(Get(f.id), Get(f.gml_id))
         IN  IF Truthy(fid) /\ fid \notin seen
             THEN Collect_no_seen(Tail(features), Append(all, f), seen)
             ELSE Collect_no_seen(Tail(features), all, seen)

\* The for loop over one cell's features: the collector after it, as
\* [all_features, seen_ids].
RECURSIVE Collect(_, _, _)
Collect(features, all, seen) ==
    IF features = <<>> THEN [all_features |-> all, seen_ids |-> seen]
    ELSE LET f   == Head(features)
             fid == Fid(f)
         IN  IF Truthy(fid) /\ fid \notin seen
             THEN Collect(Tail(features), Append(all, f), seen \cup {fid})
             ELSE Collect(Tail(features), all, seen)

\* Mutant: the upper edges are not clipped to the box.
Cell_unclipped(box, step, cx, cy) ==
    [minx |-> cx, miny |-> cy, maxx |-> FAdd(cx, step), maxy |-> FAdd(cy, step)]

\* The cell requested at loop position (x, y).
Cell(box, step, cx, cy) ==
    [minx |-> cx, miny |-> cy,
     maxx |-> FMin(FAdd(cx, step), box.maxx),
     maxy |-> FMin(FAdd(cy, step), box.maxy)]

(***************************************************************************)
(* State.                                                                  *)
(***************************************************************************)
VARIABLES
    script,          \* the script this run executes
    pc,              \* its position
    exit_code,       \* -1 while running, then the process's exit status
    error,           \* the exception that ended the run, "none" otherwise
    bbox, grid,      \* BB_BBOX and GRID_SIZE of this run
    x, y,            \* download_all_features: the loop variables
    all_features, seen_ids,
    requests,        \* history: the cells requested, in order
    rounded,         \* history: some x + GRID_SIZE or y + GRID_SIZE was inexact
    arrived,         \* history: the raw features the fetches returned
    last_fetch,      \* history: outcome of the latest fetch
    transformed,     \* main: result of transform_features
    stage_calls,     \* history: calls of transform, save, rmtree, tippecanoe
    tool_saw_dir,    \* history: the tiles directory when tippecanoe started
    tool_result,     \* history: how the tippecanoe run ended
    geojson_file,    \* the file the script writes
    tiles_dir,       \* static/tiles on disk
    input_geojson,   \* convert-bb.py: data/alkis_bb.geojson
    chunk_file, chunk_i, runs, downloaded, merged   \* download-bb.py

gridVars == <<bbox, grid, x, y, requests, rounded>>

collectVars == <<all_features, seen_ids, arrived, last_fetch>>

mainVars == <<script, pc, exit_code, error, transformed, stage_calls, tool_saw_dir,
             tool_result>>

fsVars == <<geojson_file, tiles_dir, input_geojson>>

dlVars == <<chunk_file, chunk_i, runs, downloaded, merged>>

vars == <<gridVars, collectVars, mainVars, fsVars, dlVars>>

NoCalls == [transform |-> 0, save |-> 0, rmtree |-> 0, tool |-> 0]

NoFile == [exists |-> FALSE, features |-> <<>>]

File(features) == [exists |-> TRUE, features |-> features]

\* sys.exit(1), or an exception no handler catches: the run ends, status 1.
Fail(exc) ==
    /\ pc' = "FAILED"
    /\ exit_code' = 1
    /\ error' = exc

(***************************************************************************)
(* make-tiles-bb.py                                                        *)
(***************************************************************************)
\* main up to the call of download_all_features, and its first lines.
StartDownload ==
    /\ script = "make-tiles-bb"
    /\ pc = "INIT"
    /\ pc' = "DOWNLOADING"
    /\ all_features' = <<>>
    /\ seen_ids' = {}
    /\ x' = bbox.minx
    /\ y' = IF FLess(bbox.minx, bbox.maxx) THEN bbox.miny ELSE y
    /\ UNCHANGED <<bbox, grid, requests, rounded, arrived, last_fetch>>
    /\ UNCHANGED <<script, exit_code, error, transformed, stage_calls, tool_saw_dir, tool_result>>
    /\ UNCHANGED <<fsVars, dlVars>>

\* One pass of the inner while loop: fetch the cell at (x, y), collect its
\* features, y += GRID_SIZE.  An exception leaving get_features_for_bbox
\* leaves download_all_features and main too.
FetchCell(responses) ==
    /\ script = "make-tiles-bb"
    /\ pc = "DOWNLOADING"
    /\ FLess(x, bbox.maxx)
    /\ FLess(y, bbox.maxy)
    /\ requests' = Append(requests, Cell(bbox, grid, x, y))
    /\ \E resp \in responses :
        LET r == get_features_for_bbox(resp)
            c == Collect(r.value, all_features, seen_ids)
        IN  /\ last_fetch' = [outcome |-> resp.outcome, raised |-> r.raised,
                              returned |-> r.value]
            /\ IF r.raised = "none"
               THEN /\ arrived' = arrived \o r.value
                    /\ all_features' = c.all_features
                    /\ seen_ids' = c.seen_ids
                    /\ y' = FAdd(y, grid)
                    /\ rounded' = (rounded \/ FAdd(y, grid) # ExactAdd(y, grid))
                    /\ UNCHANGED <<pc, exit_code, error>>
               ELSE /\ Fail(r.raised)
                    /\ UNCHANGED <<arrived, all_features, seen_ids, y, rounded>>
    /\ UNCHANGED <<bbox, grid, x, script, transformed, stage_calls, tool_saw_dir, tool_result>>
    /\ UNCHANGED <<fsVars, dlVars>>

\* The inner loop is over: x += GRID_SIZE, and y = miny when the outer loop
\* goes on.
NextColumn ==
    /\ script = "make-tiles-bb"
    /\ pc = "DOWNLOADING"
    /\ FLess(x, bbox.maxx)
    /\ ~FLess(y, bbox.maxy)
    /\ x' = FAdd(x, grid)
    /\ y' = IF FLess(FAdd(x, grid), bbox.maxx) THEN bbox.miny ELSE y
    /\ rounded' = (rounded \/ FAdd(x, grid) # ExactAdd(x, grid))
    /\ UNCHANGED <<bbox, grid, requests, collectVars, mainVars, fsVars, dlVars>>

\* Mutant: main does not test the downloaded list.
FinishDownload_no_check ==
    /\ script = "make-tiles-bb"
    /\ pc = "DOWNLOADING"
    /\ ~FLess(x, bbox.maxx)
    /\ pc' = "TRANSFORMING"
    /\ UNCHANGED <<exit_code, error>>
    /\ UNCHANGED <<script, transformed, stage_calls, tool_saw_dir, tool_result>>
    /\ UNCHANGED <<gridVars, collectVars, fsVars, dlVars>>

\* download_all_features returns; main exits with 1 on an empty list.
FinishDownload ==
    /\ script = "make-tiles-bb"
    /\ pc = "DOWNLOADING"
    /\ ~FLess(x, bbox.maxx)
    /\ IF all_features = <<>>
       THEN Fail("SystemExit")
       ELSE pc' = "TRANSFORMING" /\ UNCHANGED <<exit_code, error>>
    /\ UNCHANGED <<script, transformed, stage_calls, tool_saw_dir, tool_result>>
    /\ UNCHANGED <<gridVars, collectVars, fsVars, dlVars>>

\* Step 2 of main.
Transform ==
    /\ script = "make-tiles-bb"
    /\ pc = "TRANSFORMING"
    /\ transformed' = transform_features(all_features)
    /\ stage_calls' = [stage_calls EXCEPT !.transform = @ + 1]
    /\ pc' = "PERSISTING"
    /\ UNCHANGED <<script, exit_code, error, tool_saw_dir, tool_result>>
    /\ UNCHANGED <<gridVars, collectVars, fsVars, dlVars>>

\* Step 3 of main: save_geojson writes the file, or mkdir/open raise OSError.
save_geojson ==
    /\ script = "make-tiles-bb"
    /\ pc = "PERSISTING"
    /\ stage_calls' = [stage_calls EXCEPT !.save = @ + 1]
    /\ \/ /\ geojson_file' = File(transformed)
          /\ pc' = "TILING"
          /\ UNCHANGED <<exit_code, error>>
       \/ /\ Fail("OSError")
          /\ UNCHANGED geojson_file
    /\ UNCHANGED <<script, transformed, tool_saw_dir, tool_result, tiles_dir, input_geojson>>
    /\ UNCHANGED <<gridVars, collectVars, dlVars>>

\* Mutant: generate_tiles leaves an existing tiles directory in place.
RemoveExistingTiles_skipped ==
    /\ pc = "TILING"
    /\ pc' = "TILING_RUN"
    /\ UNCHANGED <<stage_calls, tiles_dir, exit_code, error>>
    /\ UNCHANGED <<script, transformed, tool_saw_dir, tool_result, geojson_file, input_geojson>>
    /\ UNCHANGED <<gridVars, collectVars, dlVars>>

\* generate_tiles, first half: remove the existing tiles directory.
RemoveExistingTiles ==
    /\ pc = "TILING"
    /\ IF tiles_dir # "absent"
       THEN /\ stage_calls' = [stage_calls EXCEPT !.rmtree = @ + 1]
            /\ \/ /\ tiles_dir' = "absent"
                  /\ pc' = "TILING_RUN"
                  /\ UNCHANGED <<exit_code, error>>
               \/ /\ Fail("OSError")
                  /\ UNCHANGED tiles_dir
       ELSE /\ pc' = "TILING_RUN"
            /\ UNCHANGED <<stage_calls, tiles_dir, exit_code, error>>
    /\ UNCHANGED <<script, transformed, tool_saw_dir, tool_result, geojson_file, input_geojson>>
    /\ UNCHANGED <<gridVars, collectVars, dlVars>>

\* Mutant: subprocess.run without check=True, a nonzero exit goes unnoticed.
RunTippecanoe_unchecked ==
    /\ pc = "TILING_RUN"
    /\ stage_calls' = [stage_calls EXCEPT !.tool = @ + 1]
    /\ tool_saw_dir' = tiles_dir
    /\ \/ /\ tool_result' = "ok"
          /\ tiles_dir' = "new"
          /\ pc' = "DONE"
          /\ exit_code' = 0
          /\ UNCHANGED error
       \/ /\ tool_result' = "FileNotFoundError"
          /\ Fail("SystemExit")
          /\ UNCHANGED tiles_dir
       \/ /\ tool_result' = "CalledProcessError"
          /\ tiles_dir' \in {tiles_dir, "partial"}
          /\ pc' = "DONE"
          /\ exit_code' = 0
          /\ UNCHANGED error
    /\ UNCHANGED <<script, transformed, geojson_file, input_geojson>>
    /\ UNCHANGED <<gridVars, collectVars, dlVars>>

\* generate_tiles, second half: subprocess.run(cmd, check=True) once; the
\* tool succeeds, is not installed, or exits nonzero.
RunTippecanoe ==
    /\ pc = "TILING_RUN"
    /\ stage_calls' = [stage_calls EXCEPT !.tool = @ + 1]
    /\ tool_saw_dir' = tiles_dir
    /\ \/ /\ tool_result' = "ok"
          /\ tiles_dir' = "new"
          /\ pc' = "DONE"
          /\ exit_code' = 0
          /\ UNCHANGED error
       \/ /\ tool_result' = "FileNotFoundError"
          /\ Fail("SystemExit")
          /\ UNCHANGED tiles_dir
       \/ /\ tool_result' = "CalledProcessError"
          /\ Fail("SystemExit")
          /\ tiles_dir' \in {tiles_dir, "partial"}
    /\ UNCHANGED <<script, transformed, geojson_file, input_geojson>>
    /\ UNCHANGED <<gridVars, collectVars, dlVars>>

generate_tiles_remove == script = "make-tiles-bb" /\ RemoveExistingTiles

generate_tiles_run == script = "make-tiles-bb" /\ RunTippecanoe

(***************************************************************************)
(* convert-bb.py                                                           *)
(***************************************************************************)
\* convert_features: load INPUT_GEOJSON, convert, write OUTPUT_GEOJSON.
cb_convert_features ==
    /\ script = "convert-bb"
    /\ pc = "INIT"
    /\ IF input_geojson.exists
       THEN /\ transformed' = convert_features(input_geojson.features)
            /\ geojson_file' = File(convert_features(input_geojson.features))
            /\ stage_calls' = [stage_calls EXCEPT !.transform = @ + 1,
                                                  !.save = @ + 1]
            /\ pc' = "TILING"
            /\ UNCHANGED <<exit_code, error>>
       ELSE /\ Fail("FileNotFoundError")
            /\ UNCHANGED <<transformed, geojson_file, stage_calls>>
    /\ UNCHANGED <<script, tool_saw_dir, tool_result, tiles_dir, input_geojson>>
    /\ UNCHANGED <<gridVars, collectVars, dlVars>>

cb_generate_tiles_remove == script = "convert-bb" /\ RemoveExistingTiles

cb_generate_tiles_run == script = "convert-bb" /\ RunTippecanoe

(***************************************************************************)
(* download-bb.py.  NumChunks stands for len(CHUNKS); a chunk file on disk *)
(* is "absent", "partial" (opened and not written to the end) or           *)
(* "complete".  The files outlive a run; MaxRuns bounds the runs.          *)
(***************************************************************************)
NumChunks == 3

MaxRuns == 2

Chunks == 0..(NumChunks - 1)

\* main up to the chunk loop.
dl_start ==
    /\ script = "download-bb"
    /\ pc = "INIT"
    /\ pc' = "DL_CHUNKS"
    /\ chunk_i' = 0
    /\ UNCHANGED <<script, exit_code, error, transformed, stage_calls, tool_saw_dir,
                   tool_result>>
    /\ UNCHANGED <<chunk_file, runs, downloaded, merged>>
    /\ UNCHANGED <<gridVars, collectVars, fsVars>>

\* download_chunk on a chunk whose file is absent: what it leaves on disk
\* and what it returns.
\*   "RequestFailed"  requests.get or raise_for_status raise before open()
\*   "StreamFailed"   iter_content raises RequestException after open()
\*   "Complete"       every block is written
download_chunk(outcome) ==
    CASE outcome = "RequestFailed" -> [file |-> "absent", returned |-> FALSE]
      [] outcome = "StreamFailed"  -> [file |-> "partial", returned |-> FALSE]
      [] OTHER                     -> [file |-> "complete", returned |-> TRUE]

\* One pass of the chunk loop of main.
dl_chunk ==
    /\ script = "download-bb"
    /\ pc = "DL_CHUNKS"
    /\ chunk_i < NumChunks
    /\ chunk_i' = chunk_i + 1
    /\ IF chunk_file[chunk_i] # "absent"
       THEN /\ merged' = [merged EXCEPT !.skipped =
                              @ \cup {<<chunk_i, chunk_file[chunk_i]>>}]
            /\ UNCHANGED <<chunk_file, downloaded>>
       ELSE \E outcome \in {"RequestFailed", "StreamFailed", "Complete"} :
              LET d == download_chunk(outcome)
              IN  /\ chunk_file' = [chunk_file EXCEPT ![chunk_i] = d.file]
                  /\ downloaded' = IF d.returned THEN downloaded \cup {chunk_i}
                                   ELSE downloaded
                  /\ UNCHANGED merged
    /\ UNCHANGED <<runs, mainVars, gridVars, collectVars, fsVars>>

\* The chunk files merge_and_convert hands to ogr2ogr: those that exist.
RECURSIVE ExistingChunks(_)
ExistingChunks(i) ==
    IF i >= NumChunks THEN <<>>
    ELSE (IF chunk_file[i] # "absent" THEN <<<<i, chunk_file[i]>>>> ELSE <<>>)
         \o ExistingChunks(i + 1)

\* merge_and_convert and the end of main: the script exits with 0.
dl_merge ==
    /\ script = "download-bb"
    /\ pc = "DL_CHUNKS"
    /\ chunk_i = NumChunks
    /\ \/ /\ merged' = [merged EXCEPT !.processed = ExistingChunks(0)]
          /\ geojson_file' = IF ExistingChunks(0) = <<>> THEN geojson_file
                             ELSE File(<<>>)
       \/ /\ ExistingChunks(0) # <<>>
          /\ merged' = [merged EXCEPT !.processed = <<>>]
          /\ UNCHANGED geojson_file
    /\ pc' = "DONE"
    /\ exit_code' = 0
    /\ UNCHANGED <<script, error, transformed, stage_calls, tool_saw_dir, tool_result>>
    /\ UNCHANGED <<chunk_file, chunk_i, runs, downloaded, tiles_dir, input_geojson>>
    /\ UNCHANGED <<gridVars, collectVars>>

\* The operator runs the script again; the files on disk stay.
dl_rerun ==
    /\ script = "download-bb"
    /\ pc = "DONE"
    /\ runs < MaxRuns
    /\ runs' = runs + 1
    /\ pc' = "INIT"
    /\ exit_code' = -1
    /\ merged' = [skipped |-> {}, processed |-> <<>>]
    /\ UNCHANGED <<script, error, transformed, stage_calls, tool_saw_dir, tool_result>>
    /\ UNCHANGED <<chunk_file, chunk_i, downloaded>>
    /\ UNCHANGED <<gridVars, collectVars, fsVars>>

(***************************************************************************)
(* Inputs.                                                                 *)
(***************************************************************************)
SeqsUpTo(S, n) == UNION {[1..k -> S] : k \in 0..n}

Responses(universe, n) ==
    {Response("ok", s) : s \in SeqsUpTo(universe, n)}
    \cup {Response(o, <<>>) : o \in {"RequestException", "JSONDecodeError", "NotAnObject"}}

Box(minx, miny, maxx, maxy) == [minx |-> minx, miny |-> miny, maxx |-> maxx, maxy |-> maxy]

\* Raw features of the collector runs: a plain id, the same id again with
\* other content, the fallback field, no identifier at all, an empty id
\* with and without the fallback.
RawUniverse ==
    { RawFeature("a", Absent, "Wald", "G1"),
      RawFeature("a", "c", "Weg", "G2"),
      RawFeature(Absent, "b", "Unknown Label", "G3"),
      RawFeature(Absent, Absent, Absent, "G4"),
      RawFeature("", "a", "", "G5"),
      RawFeature("", Absent, "Halde", "G6") }

MaxResp == 2

\* Raw features of the whole-run scenarios.
RunUniverse ==
    { RawFeature("a", Absent, "Wald", "G1"),
      RawFeature("a", Absent, "Unknown Label", "G2"),
      RawFeature(Absent, Absent, "Weg", "G3") }

MaxRunResp == 1

\* Boxes of one, two and three cells at step 0.5.
SmallBoxes ==
    { Box(FZero, FZero, F0_5, F0_5),
      Box(FZero, FZero, F0_5, F1_0),
      Box(FZero, FZero, F1_2, F0_5) }

MaxCoord == 3

CoordTable == <<FZero, F0_5, F1_0, F1_2, F0_3>>

Coords == {CoordTable[i] : i \in {j \in DOMAIN CoordTable : j <= MaxCoord}}

\* The grid scenarios: every proper box over Coords with every step, the
\* box of the specification's example, and the script's own box and step.
GridScenarios ==
    { <<Box(a, b, c, d), g>> :
        a \in Coords, b \in Coords, c \in Coords, d \in Coords,
        g \in {F0_1, F0_2, F0_3, F0_5} }
    \cup { <<Box(FZero, FZero, F1_2, F1_0), F0_5>>, <<BB_BBOX, GRID_SIZE>> }

ProperScenario(s) == FLess(s[1].minx, s[1].maxx) /\ FLess(s[1].miny, s[1].maxy)

RunResponses == Responses(RunUniverse, MaxRunResp)

CollectResponses == Responses(RawUniverse, MaxResp)

\* In the grid scenarios a fetch returns nothing or fails with an error
\* that the fetcher catches.
GridResponses == {Response("ok", <<>>), Response("RequestException", <<>>)}

\* Labels of the transform scenarios: every key of the table and labels
\* that are no key.
Labels ==
    DOMAIN mapping \cup DOMAIN NUTZART_TO_BEZEICH
    \cup {"", Absent, None, "Unknown Label", "wald", "AX_Wald"}

MaxList == 2

Geometries == <<"G1", "G2", "G3", "G4">>

Ids == <<"a", "b", "c", "d">>

\* Lists of raw features with distinct identifiers, as the collector
\* returns them.
FeatureLists ==
    UNION { { [i \in 1..k |-> RawFeature(Ids[i], Absent, ls[i], Geometries[i])] :
                ls \in [1..k -> Labels] } : k \in 0..MaxList }

(***************************************************************************)
(* Initial states and specifications.                                      *)
(***************************************************************************)
InitGridIdle ==
    /\ x = FZero
    /\ y = FZero
    /\ requests = <<>>
    /\ rounded = FALSE

InitCollectIdle ==
    /\ seen_ids = {}
    /\ arrived = <<>>
    /\ last_fetch = [outcome |-> "none", raised |-> "none", returned |-> <<>>]

InitMainIdle ==
    /\ exit_code = -1
    /\ error = "none"
    /\ transformed = <<>>
    /\ stage_calls = NoCalls
    /\ tool_saw_dir = "n/a"
    /\ tool_result = "n/a"

InitDownloadIdle ==
    /\ chunk_file = [i \in Chunks |-> "absent"]
    /\ chunk_i = 0
    /\ runs = 1
    /\ downloaded = {}
    /\ merged = [skipped |-> {}, processed |-> <<>>]

\* A file a prior run left behind.
OldFile == File(<<[type |-> "Feature", properties |-> [bezeich |-> "AX_Weg"],
                   geometry |-> "G0"]>>)

\* Whole runs of make-tiles-bb.py and of convert-bb.py.
Init ==
    /\ script \in {"make-tiles-bb", "convert-bb"}
    /\ pc = "INIT"
    /\ InitMainIdle
    /\ InitGridIdle
    /\ InitCollectIdle
    /\ InitDownloadIdle
    /\ all_features = <<>>
    /\ grid = GRID_SIZE
    /\ tiles_dir \in {"absent", "old"}
    /\ IF script = "make-tiles-bb"
       THEN /\ bbox \in SmallBoxes
            /\ geojson_file \in {NoFile, OldFile}
            /\ input_geojson = NoFile
       ELSE /\ bbox = BB_BBOX
            /\ geojson_file = NoFile
            /\ input_geojson \in {NoFile} \cup {File(fs) : fs \in SeqsUpTo(RunUniverse, MaxRunResp + 1)}

Next ==
    \/ StartDownload
    \/ FetchCell(RunResponses)
    \/ NextColumn
    \/ FinishDownload
    \/ Transform
    \/ save_geojson
    \/ generate_tiles_remove
    \/ generate_tiles_run
    \/ cb_convert_features
    \/ cb_generate_tiles_remove
    \/ cb_generate_tiles_run

Spec == Init /\ [][Next]_vars

\* download_all_features alone, on richer responses.
InitCollect ==
    /\ script = "make-tiles-bb"
    /\ pc = "INIT"
    /\ InitMainIdle
    /\ InitGridIdle
    /\ InitCollectIdle
    /\ InitDownloadIdle
    /\ all_features = <<>>
    /\ grid = GRID_SIZE
    /\ bbox \in {b \in SmallBoxes : b.maxx = F0_5}
    /\ tiles_dir = "absent"
    /\ geojson_file = NoFile
    /\ input_geojson = NoFile

NextCollect ==
    \/ StartDownload
    \/ FetchCell(CollectResponses)
    \/ NextColumn
    \/ FinishDownload

SpecCollect == InitCollect /\ [][NextCollect]_vars

\* The grid loop alone, over the grid scenarios.
InitGrid ==
    /\ script = "make-tiles-bb"
    /\ pc = "INIT"
    /\ InitMainIdle
    /\ InitGridIdle
    /\ InitCollectIdle
    /\ InitDownloadIdle
    /\ all_features = <<>>
    /\ \E s \in GridScenarios :
        /\ ProperScenario(s)
        /\ bbox = s[1]
        /\ grid = s[2]
    /\ tiles_dir = "absent"
    /\ geojson_file = NoFile
    /\ input_geojson = NoFile

NextGrid ==
    \/ StartDownload
    \/ FetchCell(GridResponses)
    \/ NextColumn
    \/ FinishDownload

SpecGrid == InitGrid /\ [][NextGrid]_vars

\* transform_features and convert_features on drawn feature lists: main of
\* make-tiles-bb.py after a download that returned the list, convert-bb.py
\* before it loads a file holding it.
InitTransform ==
    /\ script \in {"make-tiles-bb", "convert-bb"}
    /\ InitMainIdle
    /\ InitGridIdle
    /\ InitCollectIdle
    /\ InitDownloadIdle
    /\ grid = GRID_SIZE
    /\ bbox = BB_BBOX
    /\ tiles_dir = "absent"
    /\ geojson_file = NoFile
    /\ \E fs \in FeatureLists :
        IF script = "make-tiles-bb"
        THEN /\ fs # <<>>
             /\ pc = "TRANSFORMING"
             /\ all_features = fs
             /\ input_geojson = NoFile
        ELSE /\ pc = "INIT"
             /\ all_features = <<>>
             /\ input_geojson = File(fs)

NextTransform ==
    \/ Transform
    \/ cb_convert_features

SpecTransform == InitTransform /\ [][NextTransform]_vars

\* Runs of download-bb.py, one after the other, on a data directory that
\* starts without chunk files.
InitDownload ==
    /\ script = "download-bb"
    /\ pc = "INIT"
    /\ InitMainIdle
    /\ InitGridIdle
    /\ InitCollectIdle
    /\ InitDownloadIdle
    /\ all_features = <<>>
    /\ grid = GRID_SIZE
    /\ bbox = BB_BBOX
    /\ tiles_dir = "absent"
    /\ geojson_file = NoFile
    /\ input_geojson = NoFile

NextDownload ==
    \/ dl_start
    \/ dl_chunk
    \/ dl_merge
    \/ dl_rerun

SpecDownload == InitDownload /\ [][NextDownload]_vars

(***************************************************************************)
(* Claims.                                                                 *)
(***************************************************************************)
Range(s) == {s[i] : i \in DOMAIN s}

\* The k-th smallest element of a set of indices.
KthOf(idx, k) == CHOOSE i \in idx : Cardinality({j \in idx : j <= i}) = k

\* s is the subsequence of t at the positions idx, in their order.
IsSubseqAt(s, t, idx) ==
    /\ Len(s) = Cardinality(idx)
    /\ \A k \in 1..Len(s) : s[k] = t[KthOf(idx, k)]

InTable(f) == f.nutzart \in DOMAIN mapping

TargetOf(f) ==
    [type |-> "Feature", properties |-> [bezeich |-> mapping[f.nutzart]],
     geometry |-> f.geometry]

\* C1: transform_features emits, in input order, exactly one Target
\* Feature for every raw feature whose nutzart is a key of the vocabulary
\* table, with the input geometry and the single attribute
\* bezeich = Table[nutzart], and nothing for a feature whose nutzart is no
\* key, is empty or is missing.
C1_TransformByTable ==
    (script = "make-tiles-bb" /\ pc = "PERSISTING") =>
        IsSubseqAt(transformed,
                   [i \in DOMAIN all_features |-> TargetOf(all_features[i])],
                   {i \in DOMAIN all_features : InTable(all_features[i])})
        /\ \A k \in DOMAIN transformed :
              DOMAIN transformed[k].properties = {"bezeich"}

C1_Witness ==
    /\ script = "make-tiles-bb"
    /\ pc = "PERSISTING"
    /\ Len(all_features) = 2
    /\ all_features[1].nutzart = Absent
    /\ all_features[2].nutzart = "Wald"
    /\ transformed = <<[type |-> "Feature", properties |-> [bezeich |-> "AX_Wald"],
                        geometry |-> "G2"]>>

NoId == "<no id>"

\* The positions whose identifier in ids is found (is not NoId) and did not
\* occur before.
FirstSeen(ids) ==
    {i \in DOMAIN ids : ids[i] # NoId /\ \A j \in 1..(i - 1) : ids[j] # ids[i]}

HasFid(f) == Truthy(Fid(f))

\* C2: whatever the fetches delivered, in whatever order and with whatever
\* repeats, the collector's list holds each identifier exactly once, the
\* feature kept for an identifier is the first that arrived with it, and
\* the list is in first-seen order.
C2_DedupFirstSeen ==
    /\ IsSubseqAt(all_features, arrived,
                  FirstSeen([i \in DOMAIN arrived |->
                                IF HasFid(arrived[i]) THEN Fid(arrived[i]) ELSE NoId]))
    /\ \A i \in DOMAIN arrived :
          HasFid(arrived[i]) =>
              Cardinality({k \in DOMAIN all_features :
                              Fid(all_features[k]) = Fid(arrived[i])}) = 1

C2_Witness ==
    /\ pc = "TRANSFORMING"
    /\ Len(arrived) = 4
    /\ Len(all_features) = 2
    /\ \E i, j \in DOMAIN arrived :
          /\ i < j
          /\ Fid(arrived[i]) = Fid(arrived[j])
          /\ arrived[i] # arrived[j]
          /\ arrived[i] \in Range(all_features)
          /\ arrived[j] \notin Range(all_features)

\* The identifier as the claim reads it: id when the key is there, gml_id
\* only when it is not.
IdWhenPresent(f) == IF f.id # Absent THEN f.id ELSE f.gml_id

FoundWhenPresent(f) == IdWhenPresent(f) # Absent

\* C8 as stated: the identifier is `id` whenever that field is present and
\* `properties.gml_id` only when it is absent; a feature is appended iff an
\* identifier was found under one of the two fields and was not seen
\* before; a feature with neither is skipped and leaves the seen set alone.
C8_IdWheneverPresent ==
    /\ IsSubseqAt(all_features, arrived,
                  FirstSeen([i \in DOMAIN arrived |->
                                IF FoundWhenPresent(arrived[i])
                                THEN IdWhenPresent(arrived[i]) ELSE NoId]))
    /\ seen_ids = {IdWhenPresent(f) : f \in {g \in Range(arrived) : FoundWhenPresent(g)}}

\* The identifier with an empty id counting as no id.
IdWhenNonEmpty(f) == IF f.id \notin {Absent, None, ""} THEN f.id ELSE f.gml_id

FoundNonEmpty(f) == IdWhenNonEmpty(f) \notin {Absent, None, ""}

\* C8 amended: the identifier is `id` when that field is present and not
\* empty, and `properties.gml_id` when `id` is absent or empty; a feature
\* is appended iff a non-empty identifier was found and was not seen
\* before; a feature without one is skipped and leaves the seen set alone.
C8_IdWhenNonEmpty ==
    /\ IsSubseqAt(all_features, arrived,
                  FirstSeen([i \in DOMAIN arrived |->
                                IF FoundNonEmpty(arrived[i])
                                THEN IdWhenNonEmpty(arrived[i]) ELSE NoId]))
    /\ seen_ids = {IdWhenNonEmpty(f) : f \in {g \in Range(arrived) : FoundNonEmpty(g)}}

C8_Witness ==
    /\ pc = "TRANSFORMING"
    /\ \E i, j, k \in DOMAIN arrived :
          /\ arrived[i].id = "" /\ arrived[i].gml_id = "a"
          /\ arrived[i] \in Range(all_features)
          /\ arrived[j].id = "a" /\ arrived[j].gml_id = "c"
          /\ arrived[j] \notin Range(all_features)
          /\ arrived[k].id = Absent /\ arrived[k].gml_id = Absent
    /\ seen_ids = {"a"}

\* C6: on any network failure, timeout or malformed response the fetcher
\* returns an empty list instead of raising, so no single cell aborts the
\* run.
C6_FetchFailureReturnsEmpty ==
    /\ last_fetch.outcome \notin {"none", "ok"} =>
          last_fetch.raised = "none" /\ last_fetch.returned = <<>>
    /\ error # "AttributeError"

\* download_all_features returned to main with an empty list.
DownloadedNothing ==
    /\ script = "make-tiles-bb"
    /\ pc \notin {"INIT", "DOWNLOADING"}
    /\ error # "AttributeError"
    /\ all_features = <<>>

\* C4: when every fetch returned zero features, or the deduplicated result
\* is empty for another reason, the run exits with status 1 before the
\* transform, persist and tile stages: no GeoJSON file is written, the
\* tiles directory is not removed, and the tile generator is not invoked.
C4_EmptyDownloadExits ==
    DownloadedNothing =>
        /\ pc = "FAILED"
        /\ exit_code = 1
        /\ stage_calls = NoCalls
        /\ transformed = <<>>
        /\ geojson_file \in {NoFile, OldFile}
        /\ tiles_dir \in {"absent", "old"}
        /\ tool_result = "n/a"

C4_Witness ==
    /\ DownloadedNothing
    /\ pc = "FAILED"
    /\ exit_code = 1
    /\ Len(requests) = 3
    /\ Len(arrived) = 2
    /\ geojson_file = OldFile
    /\ tiles_dir = "old"

\* The stage a position of make-tiles-bb.py belongs to.
Stage(p) == IF p = "TILING_RUN" THEN "TILING" ELSE p

StageOrder ==
    { <<"INIT", "DOWNLOADING">>, <<"DOWNLOADING", "TRANSFORMING">>,
      <<"TRANSFORMING", "PERSISTING">>, <<"PERSISTING", "TILING">>,
      <<"TILING", "DONE">> }

\* C5: a run of make-tiles-bb.py passes through INIT, DOWNLOADING,
\* TRANSFORMING, PERSISTING, TILING, DONE in this order only, skipping and
\* repeating none; an unrecoverable error moves it from its stage to FAILED
\* with exit status 1, after which nothing more executes; DONE, with exit
\* status 0, is reached only after the tile tool was invoked once and
\* exited successfully.
C5_StageMachine ==
    /\ [][script = "make-tiles-bb" =>
            \/ <<Stage(pc), Stage(pc')>> \in StageOrder
            \/ Stage(pc') = Stage(pc) /\ Stage(pc) \in {"DOWNLOADING", "TILING"}
            \/ /\ pc' = "FAILED"
               /\ pc \notin {"DONE", "FAILED"}
               /\ exit_code' = 1]_vars
    /\ [](script = "make-tiles-bb" /\ pc = "FAILED" => exit_code = 1)
    /\ [](script = "make-tiles-bb" /\ pc = "DONE" =>
            /\ exit_code = 0
            /\ stage_calls = [transform |-> 1, save |-> 1, rmtree |-> stage_calls.rmtree,
                              tool |-> 1]
            /\ tool_result = "ok")
    /\ [](script = "make-tiles-bb" /\ pc \notin {"DONE", "FAILED"} => exit_code = -1)

C5_Witness ==
    /\ script = "make-tiles-bb"
    /\ pc = "DONE"
    /\ exit_code = 0
    /\ stage_calls = [transform |-> 1, save |-> 1, rmtree |-> 1, tool |-> 1]
    /\ tool_result = "ok"
    /\ tiles_dir = "new"

\* C7: in generate_tiles of both scripts the existing output directory is
\* removed before the tile generator is invoked: when the tool starts, no
\* directory of a prior run exists; and the tool is invoked at most once
\* per run, whether it succeeds, is missing or exits nonzero.
C7_RemoveBeforeTool ==
    /\ stage_calls.tool <= 1
    /\ stage_calls.rmtree <= 1
    /\ stage_calls.tool = 1 => tool_saw_dir = "absent"
    /\ pc = "TILING_RUN" => tiles_dir = "absent"
    /\ stage_calls.tool = 0 => tool_result = "n/a" /\ tiles_dir \in {"absent", "old"}

C7_Witness ==
    /\ stage_calls.rmtree = 1
    /\ stage_calls.tool = 1
    /\ tool_saw_dir = "absent"
    /\ tool_result = "CalledProcessError"
    /\ pc = "FAILED"

\* ceil((hi - lo) / step) in exact arithmetic: the least n with
\* lo + n * step >= hi.
RECURSIVE StepsFrom(_, _, _, _)
StepsFrom(cur, hi, step, n) ==
    IF ~FLess(cur, hi) THEN n ELSE StepsFrom(ExactAdd(cur, step), hi, step, n + 1)

CeilSteps(lo, hi, step) == StepsFrom(lo, hi, step, 0)

ExpectedCells ==
    CeilSteps(bbox.minx, bbox.maxx, grid) * CeilSteps(bbox.miny, bbox.maxy, grid)

\* The loop of download_all_features has run to its end.
GridLoopDone ==
    \/ pc = "DOWNLOADING" /\ ~FLess(x, bbox.maxx)
    \/ pc \notin {"INIT", "DOWNLOADING"} /\ error # "AttributeError"

FLeq(a, b) == ~FLess(b, a)

\* The requested cells tile the box: outer loop over X and inner loop over
\* Y, the first cell at the box's lower corner, each cell non-empty and
\* inside the box, each next cell of a column starting where the one
\* before ends and the last ending at maxY, each next column starting
\* where the one before ends and the last ending at maxX.
CellsTileBox ==
    /\ requests # <<>>
    /\ requests[1].minx = bbox.minx
    /\ requests[1].miny = bbox.miny
    /\ requests[Len(requests)].maxx = bbox.maxx
    /\ requests[Len(requests)].maxy = bbox.maxy
    /\ \A i \in DOMAIN requests :
          LET c == requests[i]
          IN  /\ FLess(c.minx, c.maxx) /\ FLess(c.miny, c.maxy)
              /\ FLeq(bbox.minx, c.minx) /\ FLeq(c.maxx, bbox.maxx)
              /\ FLeq(bbox.miny, c.miny) /\ FLeq(c.maxy, bbox.maxy)
    /\ \A i \in 1..(Len(requests) - 1) :
          LET c == requests[i]
              d == requests[i + 1]
          IN  \/ /\ d.minx = c.minx /\ d.maxx = c.maxx
                 /\ d.miny = c.maxy
              \/ /\ c.maxy = bbox.maxy
                 /\ d.minx = c.maxx
                 /\ d.miny = bbox.miny

\* The example of the specification: box (0, 0, 1.2, 1.0), step 0.5.
ExampleBox == bbox = Box(FZero, FZero, F1_2, F1_0) /\ grid = F0_5

ExampleCells ==
    /\ Len(requests) = 6
    /\ \A i \in {5, 6} : requests[i].minx = F1_0 /\ requests[i].maxx = F1_2
    /\ \A i \in 1..4 : requests[i].maxx = FAdd(requests[i].minx, F0_5)

\* C3 as stated: for every proper box and positive step the loop requests
\* exactly ceil((maxX-minX)/step) * ceil((maxY-minY)/step) cells, X outer
\* and Y inner, clipped to maxX and maxY, covering the box with no gap and
\* no cell past it; 6 cells for box (0,0,1.2,1.0) with step 0.5.
C3_CellCountAlways ==
    GridLoopDone =>
        /\ Len(requests) = ExpectedCells
        /\ CellsTileBox
        /\ ExampleBox => ExampleCells

\* C3 amended: for every proper box and positive step on which the loop
\* ends, the requested cells, X outer and Y inner and clipped to maxX and
\* maxY, cover the box with no gap and no cell past it; their number is
\* ceil((maxX-minX)/step) * ceil((maxY-minY)/step) whenever every
\* x + step and y + step of the loop is exact in floating point, as it is
\* for the script's box and step and for box (0,0,1.2,1.0) with step 0.5,
\* which gives 6 cells, the last column 0.2 wide.
C3_CellCountWhenExact ==
    GridLoopDone =>
        /\ ~rounded => Len(requests) = ExpectedCells
        /\ CellsTileBox
        /\ ExampleBox => ExampleCells /\ ~rounded
        /\ bbox = BB_BBOX /\ grid = GRID_SIZE => ~rounded

C3_Witness ==
    /\ GridLoopDone
    /\ bbox = BB_BBOX
    /\ grid = GRID_SIZE
    /\ ~rounded
    /\ Len(requests) = 40
    /\ ExpectedCells = 40
    /\ requests[40] = [minx |-> FromHex(<<13, 6, 6, 6, 6, 6, 6, 6, 6, 6, 6, 6, 6>>, 3),
                       miny |-> FromHex(<<10, 10, 12, 12, 12, 12, 12, 12, 12, 12, 12, 12, 13>>, 5),
                       maxx |-> F14_77, maxy |-> F53_56]

\* C9: convert_features of convert-bb.py and transform_features of
\* make-tiles-bb.py produce the same Target Features from every list of
\* raw features: the two vocabulary tables have the same keys and the same
\* value for every key, and both drop the same features.
C9_ConvertersAgree ==
    /\ script = "make-tiles-bb" /\ pc = "PERSISTING" =>
          transformed = convert_features(all_features)
    /\ script = "convert-bb" /\ pc = "TILING" =>
          /\ transformed = transform_features(input_geojson.features)
          /\ geojson_file = File(transform_features(input_geojson.features))
    /\ DOMAIN NUTZART_TO_BEZEICH = DOMAIN mapping
    /\ \A k \in DOMAIN mapping : NUTZART_TO_BEZEICH[k] = mapping[k]

C9_Witness ==
    /\ script = "convert-bb"
    /\ pc = "TILING"
    /\ Len(input_geojson.features) = 2
    /\ input_geojson.features[1].nutzart = "Straßenverkehr"
    /\ input_geojson.features[2].nutzart = "Unknown Label"
    /\ transformed = <<[type |-> "Feature",
                        properties |-> [bezeich |-> "AX_Strassenverkehr"],
                        geometry |-> "G1"]>>

\* C10: across runs of download-bb.py a chunk file exists on disk only if
\* a download of that chunk completed (download_chunk returned True): a
\* failed download leaves no file, so main never skips a chunk whose data
\* is missing or partial and merge_and_convert never processes a partial
\* chunk.
C10_ChunkFilesComplete ==
    /\ \A i \in Chunks :
          chunk_file[i] # "absent" => i \in downloaded /\ chunk_file[i] = "complete"
    /\ \A s \in merged.skipped : s[2] = "complete"
    /\ \A k \in DOMAIN merged.processed : merged.processed[k][2] = "complete"

====
